---- MODULE Spec2Model ----
(***************************************************************************)
(* Model of bottle_mysql_connector.MySQLConnectorPlugin: the wrapper that  *)
(* apply() puts around a route callback declaring the injected keyword.    *)
(* One invocation of the wrapper is followed from the connect call to the  *)
(* end of its finally block.  The database driver and the route callback   *)
(* are the environment: every call into them either succeeds or raises.    *)
(*                                                                         *)
(* Spec        one invocation of a wrapper, for every cursor/commit/time-  *)
(*             zone configuration                                          *)
(* SpecApply   apply() on one route with a configuration overlay, then one *)
(*             request                                                     *)
(* SpecRoutes  apply() on two routes, then several requests                *)
(* SpecSetup   setup() of several plugins on one application, and apply()  *)
(*             of the installed plugins on one route                       *)
(* SpecThreads several invocations of one wrapper, interleaved             *)
(***************************************************************************)
EXTENDS Integers, Sequences, FiniteSets, TLC

VARIABLES
  instances,   \* the plugin objects that exist: name, keyword, class
  plugins,     \* app.plugins: the installed plugin objects, in order
  last,        \* the latest call of setup() and what it met
  chain,       \* what apply() of each installed plugin did to the route
  bound,       \* whether the module bound the name PluginError when imported
  plugin,      \* the plugin object: the attributes __init__ sets
  routes,      \* the routes of the application: config and declared parameters
  callbacks,   \* what apply() returned for each route adapted so far
  current,     \* the route of the request being served
  budget,      \* requests still to come
  connects,    \* connect calls made by the requests already finished
  declaring,   \* requests so far to a callback that declares the keyword
  inv,         \* the invocation of wrapper() that is running
  frames,      \* the locals of the invocations that are suspended
  objects,     \* the connections and cursors the driver has created, and for whom
  cfg, pc, cnx, cursor, alive, exc, rv, result, log   \* the wrapper's invocation

\* the registrations of the application
reg == <<instances, plugins, last, chain, bound>>

\* which invocation runs and which wait
sched == <<inv, frames>>

\* the application without the driver's objects
fixed == <<reg, sched, plugin, routes, callbacks, current, budget, connects, declaring>>

\* the application around the invocation
app == <<fixed, objects>>

vars == <<app, cfg, pc, cnx, cursor, alive, exc, rv, result, log>>

(***************************************************************************)
(* Values                                                                  *)
(***************************************************************************)
\* Python's None
None == "<None>"

\* status of the responses the wrapper builds
ServerError == 500

\* the values a time_zone setting is drawn from: unset, empty, set
TimeZones == {None, "", "+00:00"}

\* upstream cause texts, str(e)
Texts == {"dup", "lost"}

\* values a callback returns
ReturnValues == {"rv1", "rv2"}

\* status codes a callback gives to the responses it raises
HandlerStatuses == {200, 404}

\* the exception classes that occur, by the clause names of the wrapper
Classes == {"IntegrityError", "Error", "HTTPError", "HTTPResponse",
            "Exception", "BaseException"}

\* direct superclass: mysql.connector.IntegrityError < Error < Exception,
\* bottle.HTTPError < HTTPResponse < Exception < BaseException
Super(c) ==
  CASE c = "IntegrityError" -> "Error"
    [] c = "Error"          -> "Exception"
    [] c = "HTTPError"      -> "HTTPResponse"
    [] c = "HTTPResponse"   -> "Exception"
    [] c = "Exception"      -> "BaseException"
    [] OTHER                -> "object"

RECURSIVE SubClass(_, _)
SubClass(c, d) ==
  IF c = d THEN TRUE
  ELSE IF c = "object" THEN FALSE
  ELSE SubClass(Super(c), d)

\* an exception object: its class, where it was created (its identity),
\* its HTTP status (0 when it is no response) and its text as words
MkExc(c, by, s, m) == [cls |-> c, by |-> by, status |-> s, msg |-> m]

NoExc == MkExc("none", "none", 0, <<>>)

IsInstance(e, c) == e.cls \in Classes /\ SubClass(e.cls, c)

\* an `if` that takes every value for true
TruthyAlways(v) == TRUE

\* truth value of a string-or-None configuration value in an `if`
Truthy(v) == v \notin {None, ""}

\* what the driver raises from one of its calls; NoExc is a normal return
BackendResults(op) ==
  {NoExc} \cup { MkExc(c, op, 0, <<t>>) :
                   c \in {"IntegrityError", "Error", "Exception", "BaseException"},
                   t \in Texts }

\* what the route callback raises
HandlerRaises ==
  { MkExc(c, "callback", 0, <<t>>) :
      c \in {"IntegrityError", "Error", "Exception", "BaseException"}, t \in Texts }
  \cup
  { MkExc(c, "callback", s, <<t>>) :
      c \in {"HTTPError", "HTTPResponse"}, s \in HandlerStatuses, t \in {"dup"} }

\* a return that drops the value
ReturnNothing(v) == [kind |-> "return", value |-> None, exc |-> NoExc]

\* the outcome of the invocation
Return(v) == [kind |-> "return", value |-> v, exc |-> NoExc]
Raise(e)  == [kind |-> "raise", value |-> None, exc |-> e]
NoResult  == [kind |-> "none", value |-> None, exc |-> NoExc]

\* the object a call is made on: the cursor, the connection, or neither
Receiver(op) ==
  IF op \in {"execute", "cursor.close"} THEN cursor
  ELSE IF op \in {"cursor", "is_connected", "commit", "rollback", "cnx.close"} THEN cnx
  ELSE None

\* the object a call of the driver creates: a new one on every call, named
\* after the call, of which an invocation makes at most one of each kind
NewObject(kind) == kind \o ToString(inv)

\* one call into the driver or the callback, with its arguments
Call(op, arg) == [op |-> op, arg |-> arg, on |-> Receiver(op)]

\* bottle.HTTPError(500, f"<category>: {e}")
HTTPError500(category, e) ==
  MkExc("HTTPError", "wrapper", ServerError, category \o e.msg)

Count(op) == Cardinality({i \in DOMAIN log : log[i].op = op})

(***************************************************************************)
(* Configuration: the plugin's attributes and the route's overlay          *)
(***************************************************************************)
Fields == {"host", "port", "user", "password", "database", "autocommit",
           "dictionary", "keyword", "charset", "time_zone", "buffered",
           "raise_on_warnings", "use_pure"}

\* the defaults of __init__
Defaults ==
  [host |-> "localhost", port |-> 3306, user |-> None, password |-> None,
   database |-> None, autocommit |-> TRUE, dictionary |-> TRUE,
   keyword |-> "db", charset |-> "utf8mb4", time_zone |-> None,
   buffered |-> FALSE, raise_on_warnings |-> FALSE, use_pure |-> TRUE]

\* the fields whose values are strings or None; the others hold numbers or flags
StringFields == {"host", "user", "password", "database", "keyword", "charset",
                 "time_zone"}

\* `v is None` for the value of field k
IsNone(k, v) == k \in StringFields /\ v = None

\* the keys of config_dict
ConnectFields == {"user", "password", "host", "port", "database", "charset",
                  "autocommit", "raise_on_warnings", "use_pure"}

\* config_dict with its None values removed
ConfigDict(c) ==
  LET keep == {k \in ConnectFields : ~IsNone(k, c[k])}
  IN [k \in keep |-> c[k]]

\* dict.get(key, default)
Get(d, key, default) == IF key \in DOMAIN d THEN d[key] ELSE default

\* a lookup that never reads the nested form
GFlatOnly(config, key, default) == Get(config, "mysql." \o key, default)

\* g(key, default): the nested form under "mysql" when the route has it,
\* the flat key "mysql.<key>" otherwise
G(config, key, default) ==
  IF "mysql" \in DOMAIN config
  THEN Get(Get(config, "mysql", <<>>), key, default)
  ELSE Get(config, "mysql." \o key, default)

\* a merge in which the plugin's own value wins whenever it is set
MergedGlobalFirst(self, config) ==
  [k \in Fields |-> IF IsNone(k, self[k]) THEN G(config, k, self[k]) ELSE self[k]]

\* host = g('host', self.host) ... use_pure = g('use_pure', self.use_pure)
Merged(self, config) == [k \in Fields |-> G(config, k, self[k])]

\* a test that takes every callback to declare the keyword
DeclaresAlways(keyword, params) == TRUE

\* keyword in inspect.signature(_callback).parameters
Declares(keyword, params) == keyword \in params

\* a route configuration holding the overlay ov under the key "mysql"
Nested(ov) == "mysql" :> ov

\* a route configuration holding the overlay ov as keys "mysql.<field>"
Flat(ov) ==
  [k \in {"mysql." \o f : f \in DOMAIN ov} |->
     ov[CHOOSE f \in DOMAIN ov : "mysql." \o f = k]]

\* the plugins of Spec: every combination of the settings the wrapper tests
PluginConfigs ==
  { [Defaults EXCEPT !.autocommit = a, !.dictionary = d, !.buffered = b,
                     !.time_zone = t] :
      a \in BOOLEAN, d \in BOOLEAN, b \in BOOLEAN, t \in TimeZones }

(***************************************************************************)
(* setup(): the plugins of the application                                 *)
(***************************************************************************)
\* the class attribute `name`
FamilyName == "mysql"

\* a plugin object as setup() sees it; own tells an instance of
\* MySQLConnectorPlugin from a plugin of another class
Instance(keyword, own) == [name |-> FamilyName, keyword |-> keyword, own |-> own]

\* no call of setup() yet
NoSetup == [id |-> 0, raised |-> FALSE, error |-> "none", before |-> FamilyName,
            sameKeyword |-> FALSE, sameName |-> FALSE, installing |-> FALSE]

\* the registrations when one plugin p is installed and nothing else
OnlyPlugin(p) ==
  /\ instances = << Instance(p.keyword, TRUE) >>
  /\ plugins = <<1>>
  /\ last = NoSetup
  /\ chain = <<>>
  /\ bound = FALSE

\* a loop that never changes the name
RECURSIVE SetupLoopNoRename(_, _, _)
SetupLoopNoRename(self, others, k) ==
  IF k > Len(others) THEN [name |-> self.name, raised |-> FALSE]
  ELSE LET other == others[k] IN
       IF ~other.own THEN SetupLoopNoRename(self, others, k + 1)
       ELSE IF other.keyword = self.keyword
       THEN [name |-> self.name, raised |-> TRUE]
       ELSE SetupLoopNoRename(self, others, k + 1)

\* for other in app.plugins, from the k-th on: the name self ends with and
\* whether PluginError was raised
RECURSIVE SetupLoop(_, _, _)
SetupLoop(self, others, k) ==
  IF k > Len(others) THEN [name |-> self.name, raised |-> FALSE]
  ELSE LET other == others[k] IN
       IF ~other.own THEN SetupLoop(self, others, k + 1)
       ELSE IF other.keyword = self.keyword
       THEN [name |-> self.name, raised |-> TRUE]
       ELSE IF other.name = self.name
       THEN SetupLoop([self EXCEPT !.name = self.name \o "_" \o self.keyword],
                      others, k + 1)
       ELSE SetupLoop(self, others, k + 1)

\* the plugin objects of app.plugins
Others == [k \in DOMAIN plugins |-> instances[plugins[k]]]

\* what `raise PluginError(...)` raises: the module defines the class only
\* when bottle has none (bottle < 0.10); otherwise the name is not bound in
\* the module and evaluating it raises NameError
RaisesPluginError(b) == IF b THEN "PluginError" ELSE "NameError"

\* what a call of setup() on instance i meets, for the record
Met(i, r, installing) ==
  [id |-> i, raised |-> r.raised,
   error |-> IF r.raised THEN RaisesPluginError(bound) ELSE "none",
   before |-> instances[i].name,
   sameKeyword |-> \E k \in DOMAIN plugins :
                     /\ instances[plugins[k]].own
                     /\ instances[plugins[k]].keyword = instances[i].keyword,
   sameName |-> \E k \in DOMAIN plugins :
                  /\ instances[plugins[k]].own
                  /\ instances[plugins[k]].name = instances[i].name,
   installing |-> installing]

\* plugin.setup(app), called directly
Setup ==
  /\ pc = "setup"
  /\ \E i \in DOMAIN instances :
       /\ instances[i].own
       /\ LET r == SetupLoop(instances[i], Others, 1) IN
            /\ instances' = [instances EXCEPT ![i].name = r.name]
            /\ last' = Met(i, r, FALSE)
  /\ UNCHANGED <<plugins, chain, bound>>
  /\ UNCHANGED <<sched, objects, plugin, routes, callbacks, current, budget, connects,
                 declaring, cfg, pc, cnx, cursor, alive, exc, rv, result, log>>

\* app.install(plugin): setup(app), then the plugin joins app.plugins and
\* the routes are adapted anew; a plugin of another class has no such setup
Install ==
  /\ pc = "setup"
  /\ \E i \in DOMAIN instances :
       IF instances[i].own
       THEN LET r == SetupLoop(instances[i], Others, 1) IN
            /\ instances' = [instances EXCEPT ![i].name = r.name]
            /\ last' = Met(i, r, TRUE)
            /\ plugins' = IF r.raised THEN plugins ELSE Append(plugins, i)
            /\ chain' = IF r.raised THEN chain ELSE <<>>
       ELSE /\ \A k \in DOMAIN plugins : plugins[k] # i
            /\ plugins' = Append(plugins, i)
            /\ chain' = <<>>
            /\ UNCHANGED <<instances, last>>
  /\ bound' = bound
  /\ UNCHANGED <<sched, objects, plugin, routes, callbacks, current, budget, connects,
                 declaring, cfg, pc, cnx, cursor, alive, exc, rv, result, log>>

\* apply(callback, route) of every installed plugin of this class on the
\* route: the keyword it looks up and whether it wraps the callback
Adapt ==
  /\ pc = "setup"
  /\ chain = <<>>
  /\ plugins # <<>>
  /\ chain' = [k \in DOMAIN plugins |->
                 LET p == instances[plugins[k]]
                     keyword == G(routes[1].config, "keyword", p.keyword)
                 IN [keyword |-> keyword,
                     wrapped |-> p.own /\ Declares(keyword, routes[1].params)]]
  /\ UNCHANGED <<instances, plugins, last, bound>>
  /\ UNCHANGED <<sched, objects, plugin, routes, callbacks, current, budget, connects,
                 declaring, cfg, pc, cnx, cursor, alive, exc, rv, result, log>>

(***************************************************************************)
(* The wrapper                                                             *)
(***************************************************************************)
\* one invocation at a time, and a driver that has created nothing yet
Alone ==
  /\ inv = 1
  /\ frames = <<>>
  /\ objects = {}

\* the locals of wrapper() when it is entered
Entered ==
  /\ cnx = None
  /\ cursor = None
  /\ alive = FALSE
  /\ exc = NoExc
  /\ rv = None
  /\ result = NoResult
  /\ log = <<>>

\* a plugin, a route without overlay whose callback declares the keyword,
\* adapted, and its wrapper entered
Init ==
  /\ plugin \in PluginConfigs
  /\ OnlyPlugin(plugin)
  /\ Alone
  /\ routes = << [config |-> <<>>, params |-> {plugin.keyword}] >>
  /\ callbacks = << [wrapped |-> TRUE, cfg |-> Merged(plugin, <<>>)] >>
  /\ current = 1
  /\ budget = 0
  /\ connects = 0
  /\ declaring = 1
  /\ cfg = callbacks[1].cfg
  /\ pc = "connect"
  /\ Entered

\* cnx = mysql.connector.connect(**config_dict)
Connect ==
  /\ pc = "connect"
  /\ \E r \in BackendResults("connect") :
       /\ log' = Append(log, Call("connect", ConfigDict(cfg)))
       /\ IF r = NoExc
          THEN /\ cnx' = NewObject("cnx")
               /\ objects' = objects \cup {[id |-> cnx', by |-> inv]}
               /\ alive' = TRUE
               /\ exc' = exc
               /\ pc' = "cursor"
          ELSE /\ cnx' = cnx
               /\ objects' = objects
               /\ alive' = alive
               /\ exc' = r
               /\ pc' = "acquire_except"
  /\ UNCHANGED <<fixed, cfg, cursor, rv, result>>

\* cursor options that leave out the buffered flag
CursorKwargsDictionaryOnly(dictionary, buffered) ==
  IF dictionary THEN <<"dictionary">> ELSE <<>>

\* cursor_kwargs: the options that are set to True
CursorKwargs(dictionary, buffered) ==
  (IF dictionary THEN <<"dictionary">> ELSE <<>>)
    \o (IF buffered THEN <<"buffered">> ELSE <<>>)

\* cursor = cnx.cursor(**cursor_kwargs)
CreateCursor ==
  /\ pc = "cursor"
  /\ \E r \in BackendResults("cursor") :
       /\ log' = Append(log, Call("cursor", CursorKwargs(cfg.dictionary, cfg.buffered)))
       /\ IF r = NoExc
          THEN /\ cursor' = NewObject("cursor")
               /\ objects' = objects \cup {[id |-> cursor', by |-> inv]}
               /\ exc' = exc
               /\ pc' = IF Truthy(cfg.time_zone) THEN "time_zone" ELSE "callback"
          ELSE /\ cursor' = cursor
               /\ objects' = objects
               /\ exc' = r
               /\ pc' = "acquire_except"
  /\ UNCHANGED <<fixed, cfg, cnx, alive, rv, result>>

\* cursor.execute("SET time_zone = %s", (time_zone,))
SetTimeZone ==
  /\ pc = "time_zone"
  /\ \E r \in BackendResults("execute") :
       /\ log' = Append(log, Call("execute", <<"SET time_zone = %s", cfg.time_zone>>))
       /\ IF r = NoExc
          THEN exc' = exc /\ pc' = "callback"
          ELSE exc' = r /\ pc' = "acquire_except"
  /\ UNCHANGED <<app, cfg, cnx, cursor, alive, rv, result>>

\* the except clauses of the acquisition, in their order
AcquireClauses == <<"Error", "Exception">>

AcquireCategory(clause) ==
  IF clause = "Error" THEN <<"Database", "Connection", "Error:">>
  ELSE <<"Unexpected", "Error:">>

\* clauses chosen for a response by its status code instead of its class
MatchingByStatus(clauses, e) ==
  IF e.cls \in {"HTTPError", "HTTPResponse"}
  THEN (IF e.status >= 400 THEN "HTTPError" ELSE "HTTPResponse")
  ELSE IF \E i \in DOMAIN clauses : IsInstance(e, clauses[i])
  THEN clauses[CHOOSE i \in DOMAIN clauses :
                 /\ IsInstance(e, clauses[i])
                 /\ \A j \in 1..(i-1) : ~IsInstance(e, clauses[j])]
  ELSE "none"

\* the first clause of a try statement that catches e, "none" when none does
Matching(clauses, e) ==
  IF \E i \in DOMAIN clauses : IsInstance(e, clauses[i])
  THEN clauses[CHOOSE i \in DOMAIN clauses :
                 /\ IsInstance(e, clauses[i])
                 /\ \A j \in 1..(i-1) : ~IsInstance(e, clauses[j])]
  ELSE "none"

\* except mysql.connector.Error / except Exception around the acquisition:
\* if cnx: cnx.close(); raise bottle.HTTPError(500, ...)
AcquireExcept ==
  /\ pc = "acquire_except"
  /\ LET clause == Matching(AcquireClauses, exc) IN
       IF clause = "none"
       THEN /\ result' = Raise(exc)
            /\ log' = log
       ELSE IF cnx # None
       THEN \E r \in BackendResults("cnx.close") :
              /\ log' = Append(log, Call("cnx.close", <<>>))
              /\ result' = IF r = NoExc
                           THEN Raise(HTTPError500(AcquireCategory(clause), exc))
                           ELSE Raise(r)
       ELSE /\ log' = log
            /\ result' = Raise(HTTPError500(AcquireCategory(clause), exc))
  /\ pc' = "done"
  /\ UNCHANGED <<app, cfg, cnx, cursor, alive, exc, rv>>

\* rv = callback(*args, **kwargs), with kwargs[keyword] = cursor; the
\* connection may be lost while the callback runs
CallHandler ==
  /\ pc = "callback"
  /\ log' = Append(log, Call("callback", <<cursor>>))
  /\ alive' \in {alive, FALSE}
  /\ \/ \E v \in ReturnValues :
          /\ rv' = v
          /\ exc' = exc
          /\ pc' = "commit"
     \/ \E e \in HandlerRaises :
          /\ rv' = rv
          /\ exc' = e
          /\ pc' = "except"
  /\ UNCHANGED <<app, cfg, cnx, cursor, result>>

\* cnx.is_connected(): the driver's answer, or an exception
IsConnectedResults ==
  {NoExc} \cup { MkExc(c, "is_connected", 0, <<"lost">>) : c \in {"Error", "Exception"} }

\* an is_connected that answers the opposite of the connection's state
AnswerNegated(ic, a) ==
  IF ic # NoExc THEN <<"raise">> ELSE IF a THEN <<"False">> ELSE <<"True">>

\* what a call of is_connected gave: an exception, or the connection's state
Answer(ic, a) ==
  IF ic # NoExc THEN <<"raise">> ELSE IF a THEN <<"True">> ELSE <<"False">>

\* a commit made when autocommit is off instead of on
CommitsOnReturnNegated(autocommit, c) == ~autocommit /\ c # None

\* a commit made whatever autocommit says
CommitsOnReturnAlways(autocommit, c) == c # None

\* `autocommit and cnx` of the normal return
CommitsOnReturn(autocommit, c) == autocommit /\ c # None

\* if autocommit and cnx and cnx.is_connected(): cnx.commit(); return rv
CommitOnReturn ==
  /\ pc = "commit"
  /\ IF CommitsOnReturn(cfg.autocommit, cnx)
     THEN \E ic \in IsConnectedResults :
            LET log1 == Append(log, Call("is_connected", Answer(ic, alive))) IN
            IF ic # NoExc
            THEN /\ log' = log1
                 /\ exc' = ic
                 /\ pc' = "except"
                 /\ UNCHANGED <<result, alive>>
            ELSE IF ~alive
            THEN /\ log' = log1
                 /\ result' = Return(rv)
                 /\ pc' = "finally_cursor"
                 /\ UNCHANGED <<exc, alive>>
            ELSE \E r \in BackendResults("commit") :
                   /\ log' = Append(log1, Call("commit", <<>>))
                   /\ IF r = NoExc
                      THEN /\ result' = Return(rv)
                           /\ pc' = "finally_cursor"
                           /\ UNCHANGED <<exc, alive>>
                      ELSE /\ exc' = r
                           /\ pc' = "except"
                           /\ alive' \in {alive, FALSE}
                           /\ UNCHANGED result
     ELSE /\ result' = Return(rv)
          /\ pc' = "finally_cursor"
          /\ UNCHANGED <<log, exc, alive>>
  /\ UNCHANGED <<app, cfg, cnx, cursor, rv>>

\* the except clauses around the callback, in their order
HandlerClauses == <<"IntegrityError", "Error", "HTTPError", "HTTPResponse", "Exception">>

\* the condition a clause puts before `cnx and cnx.is_connected()`
ClauseGuard(clause, autocommit) ==
  IF clause \in {"HTTPError", "HTTPResponse"} THEN autocommit ELSE TRUE

\* the transaction call of a clause
ClauseCall(clause) ==
  IF clause = "HTTPResponse" THEN "commit" ELSE "rollback"

\* what a clause raises once its transaction call is through
ClauseRaises(clause, e) ==
  CASE clause = "IntegrityError" -> HTTPError500(<<"Database", "Integrity", "Error:">>, e)
    [] clause = "Error"          -> HTTPError500(<<"Database", "Error:">>, e)
    [] OTHER                     -> e

\* the except clauses around the callback: roll back or commit, then raise
HandleExcept ==
  /\ pc = "except"
  /\ LET clause == Matching(HandlerClauses, exc) IN
       IF clause = "none"
       THEN /\ result' = Raise(exc)
            /\ log' = log
       ELSE IF ~(ClauseGuard(clause, cfg.autocommit) /\ cnx # None)
       THEN /\ result' = Raise(ClauseRaises(clause, exc))
            /\ log' = log
       ELSE \E ic \in IsConnectedResults :
              LET log1 == Append(log, Call("is_connected", Answer(ic, alive))) IN
              IF ic # NoExc
              THEN /\ log' = log1
                   /\ result' = Raise(ic)
              ELSE IF ~alive
              THEN /\ log' = log1
                   /\ result' = Raise(ClauseRaises(clause, exc))
              ELSE \E r \in BackendResults(ClauseCall(clause)) :
                     /\ log' = Append(log1, Call(ClauseCall(clause), <<>>))
                     /\ result' = IF r = NoExc
                                  THEN Raise(ClauseRaises(clause, exc))
                                  ELSE Raise(r)
  /\ pc' = "finally_cursor"
  /\ UNCHANGED <<app, cfg, cnx, cursor, alive, exc, rv>>

\* what a close call of the finally block gave
Outcome(r) == IF r = NoExc THEN <<>> ELSE <<"raise">>

\* a finally block that lets the exception of a close replace the outcome
AfterCloseUnguarded(r, res) == IF r = NoExc THEN res ELSE Raise(r)

\* try: close() except: pass -- the outcome after a close that gave r
AfterClose(r, res) == res

\* a finally block whose test of the cursor is inverted
ClosesCursorInverted(cur) == cur = None

\* `if cursor:` of the finally block
ClosesCursor(cur) == cur # None

\* finally: if cursor: try: cursor.close() except: pass
FinallyCursor ==
  /\ pc = "finally_cursor"
  /\ IF ClosesCursor(cursor)
     THEN \E r \in BackendResults("cursor.close") :
            /\ log' = Append(log, Call("cursor.close", Outcome(r)))
            /\ result' = AfterClose(r, result)
     ELSE /\ log' = log
          /\ result' = result
  /\ pc' = "finally_cnx"
  /\ UNCHANGED <<app, cfg, cnx, cursor, alive, exc, rv>>

\* `if cnx:` of the finally block
ClosesCnx(c) == c # None

\* finally: if cnx: try: cnx.close() except: pass
FinallyCnx ==
  /\ pc = "finally_cnx"
  /\ IF ClosesCnx(cnx)
     THEN \E r \in BackendResults("cnx.close") :
            /\ log' = Append(log, Call("cnx.close", Outcome(r)))
            /\ result' = AfterClose(r, result)
     ELSE /\ log' = log
          /\ result' = result
  /\ pc' = "done"
  /\ UNCHANGED <<app, cfg, cnx, cursor, alive, exc, rv>>

(***************************************************************************)
(* apply() and the requests of an application                              *)
(***************************************************************************)
\* apply(callback, route) for the next route: the merged configuration and
\* either the callback itself or a wrapper closing over it
Apply ==
  /\ pc = "apply"
  /\ Len(callbacks) < Len(routes)
  /\ LET route == routes[Len(callbacks) + 1]
         merged == Merged(plugin, route.config)
     IN callbacks' = Append(callbacks,
                            [wrapped |-> Declares(merged.keyword, route.params),
                             cfg |-> merged])
  /\ pc' = IF Len(callbacks') = Len(routes) THEN "idle" ELSE "apply"
  /\ UNCHANGED <<reg, sched, objects, plugin, routes, current, budget, connects,
                 declaring, cfg, cnx, cursor, alive, exc, rv, result, log>>

\* a request arrives for route i: what apply() returned for it is called
Request ==
  /\ pc \in {"idle", "done"}
  /\ budget > 0
  /\ \E i \in DOMAIN routes :
       /\ current' = i
       /\ cfg' = callbacks[i].cfg
       /\ pc' = IF callbacks[i].wrapped THEN "connect" ELSE "plain"
       /\ declaring' = IF callbacks[i].cfg.keyword \in routes[i].params
                       THEN declaring + 1 ELSE declaring
  /\ budget' = budget - 1
  /\ connects' = connects + Count("connect")
  /\ cnx' = None
  /\ cursor' = None
  /\ alive' = FALSE
  /\ exc' = NoExc
  /\ rv' = None
  /\ result' = NoResult
  /\ log' = <<>>
  /\ inv' = inv + 1
  /\ UNCHANGED <<reg, frames, objects, plugin, routes, callbacks>>

\* the callback apply() returned unmodified runs
PlainCall ==
  /\ pc = "plain"
  /\ log' = Append(log, Call("callback", <<>>))
  /\ \/ \E v \in ReturnValues :
          /\ rv' = v
          /\ exc' = exc
          /\ result' = Return(v)
     \/ \E e \in HandlerRaises :
          /\ rv' = rv
          /\ exc' = e
          /\ result' = Raise(e)
  /\ pc' = "done"
  /\ UNCHANGED <<app, cfg, cnx, cursor, alive>>

Next ==
  \/ Connect
  \/ CreateCursor
  \/ SetTimeZone
  \/ AcquireExcept
  \/ CallHandler
  \/ CommitOnReturn
  \/ HandleExcept
  \/ FinallyCursor
  \/ FinallyCnx

Spec == Init /\ [][Next]_vars

\* requests served after the routes are adapted
MaxRequests == 2

\* plugins as the tests construct them
GlobalConfigs ==
  { [Defaults EXCEPT !.user = "user", !.password = "pass", !.database = "default_db"],
    [Defaults EXCEPT !.database = "db2", !.autocommit = FALSE, !.dictionary = FALSE,
                     !.buffered = TRUE, !.time_zone = "+00:00"] }

\* the values a route overrides fields with
Override ==
  [database |-> "override_db", keyword |-> "conn", autocommit |-> FALSE,
   time_zone |-> "+00:00"]

Overlays == { [k \in D |-> Override[k]] : D \in SUBSET DOMAIN Override }

\* the parameters a callback declares
ParamSets == { {}, {"db"}, {"conn", "item"} }

\* one route with any overlay in either form, not yet adapted; one request
InitApply ==
  /\ plugin \in GlobalConfigs
  /\ OnlyPlugin(plugin)
  /\ Alone
  /\ \E ov \in Overlays, nested \in BOOLEAN, ps \in ParamSets :
       routes = << [config |-> IF nested THEN Nested(ov) ELSE Flat(ov),
                    params |-> ps] >>
  /\ callbacks = <<>>
  /\ current = 1
  /\ budget = 1
  /\ connects = 0
  /\ declaring = 0
  /\ cfg = plugin
  /\ pc = "apply"
  /\ Entered

NextApp ==
  \/ Apply
  \/ Request
  \/ PlainCall
  \/ Next

SpecApply == InitApply /\ [][NextApp]_vars

\* two routes, each with or without an overlay of the keyword, not yet
\* adapted; MaxRequests requests
InitRoutes ==
  /\ plugin = [Defaults EXCEPT !.user = "user", !.password = "pass", !.database = "db",
                              !.time_zone = "+00:00"]
  /\ OnlyPlugin(plugin)
  /\ Alone
  /\ \E ks \in [1..2 -> BOOLEAN], ps \in [1..2 -> ParamSets] :
       routes = [i \in 1..2 |->
                   [config |-> IF ks[i] THEN Flat([keyword |-> "conn"]) ELSE <<>>,
                    params |-> ps[i]]]
  /\ callbacks = <<>>
  /\ current = 1
  /\ budget = MaxRequests
  /\ connects = 0
  /\ declaring = 0
  /\ cfg = plugin
  /\ pc = "apply"
  /\ Entered

SpecRoutes == InitRoutes /\ [][NextApp]_vars

\* plugin objects that exist, installed or not
MaxPlugins == 3

\* the keywords plugins are constructed with
Keywords == {"db", "db2", "db_db2"}

\* MaxPlugins plugin objects, the first possibly of another class, none
\* installed; one route whose callback takes db, with or without an overlay
\* of the keyword
InitSetup ==
  /\ \E ks \in [1..MaxPlugins -> Keywords], own1 \in BOOLEAN :
       instances = [i \in 1..MaxPlugins |-> Instance(ks[i], i > 1 \/ own1)]
  /\ plugins = <<>>
  /\ last = NoSetup
  /\ chain = <<>>
  /\ bound \in BOOLEAN
  /\ Alone
  /\ plugin = Defaults
  /\ \E ov \in {<<>>, Flat([keyword |-> "db"])}, ps \in {{"db"}, {"db", "db2"}} :
       routes = << [config |-> ov, params |-> ps] >>
  /\ callbacks = <<>>
  /\ current = 1
  /\ budget = 0
  /\ connects = 0
  /\ declaring = 0
  /\ cfg = plugin
  /\ pc = "setup"
  /\ Entered

NextSetup ==
  \/ Setup
  \/ Install
  \/ Adapt

SpecSetup == InitSetup /\ [][NextSetup]_vars
(***************************************************************************)
(* Vocabulary of the properties                                            *)
(***************************************************************************)
Called(op) == Count(op) > 0

Done == pc = "done"

\* the callback was invoked and returned a value
HandlerReturned == Called("callback") /\ rv # None

\* the callback was invoked and raised an exception of exactly class c
HandlerRaised(c) == Called("callback") /\ exc.by = "callback" /\ exc.cls = c

\* acquisition failed with an exception its except clauses catch
AcquisitionFailed == ~Called("callback") /\ exc # NoExc /\ IsInstance(exc, "Exception")

Checks == {i \in DOMAIN log : log[i].op = "is_connected"}

\* some is_connected call raised instead of answering
CheckRaised == \E i \in Checks : log[i].arg = <<"raise">>

\* the connection is alive after the callback: the first is_connected of the
\* invocation says so, or, when none is made, the connection's state does
LiveConnection ==
  IF Checks = {} THEN alive
  ELSE log[CHOOSE i \in Checks : \A j \in Checks : i <= j].arg = <<"True">>

\* the response the wrapper builds: status 500, the category, the cause text
Classified(r, category, cause) ==
  /\ r.kind = "raise"
  /\ r.exc.cls = "HTTPError"
  /\ r.exc.status = 500
  /\ Len(r.exc.msg) = Len(category) + Len(cause.msg)
  /\ SubSeq(r.exc.msg, 1, Len(category)) = category
  /\ SubSeq(r.exc.msg, Len(category) + 1, Len(r.exc.msg)) = cause.msg

(***************************************************************************)
(* C1: in every invocation whose acquisition succeeded (the callback was   *)
(* invoked), whatever the callback's outcome, connect is called exactly    *)
(* once, and cursor.close and connection.close are each called at most     *)
(* once while it runs and exactly once by the time it ends.                *)
(***************************************************************************)
C1_OneAcquireOneRelease ==
  Called("callback") =>
    /\ Count("connect") = 1
    /\ Count("cursor.close") <= 1
    /\ Count("cnx.close") <= 1
    /\ Done => Count("cursor.close") = 1 /\ Count("cnx.close") = 1

C1_Witness ==
  /\ Done
  /\ HandlerRaised("Exception")
  /\ result.kind = "raise"
  /\ Count("connect") = 1
  /\ Count("cursor.close") = 1
  /\ Count("cnx.close") = 1

(***************************************************************************)
(* C2: when acquisition fails at connect, cursor creation or the time-zone *)
(* statement, a connection that was opened has been closed and a cursor    *)
(* that was created has been closed by the time the invocation ends.       *)
(***************************************************************************)
C2_PartialAcquisitionReleased ==
  (Done /\ AcquisitionFailed) =>
    /\ cnx # None => Count("cnx.close") = 1
    /\ cursor # None => Count("cursor.close") = 1

(***************************************************************************)
(* C3: when acquisition fails, the callback is never invoked, no commit or *)
(* rollback is issued, and the outcome is an HTTP 500 response naming      *)
(* "Database Connection Error" for a mysql error and "Unexpected Error"    *)
(* otherwise, followed by the cause text.                                  *)
(***************************************************************************)
C3_AcquisitionFailureClassified ==
  (Done /\ AcquisitionFailed) =>
    /\ ~Called("callback")
    /\ ~Called("commit")
    /\ ~Called("rollback")
    /\ Classified(result,
                  IF IsInstance(exc, "Error")
                  THEN <<"Database", "Connection", "Error:">>
                  ELSE <<"Unexpected", "Error:">>,
                  exc)

(***************************************************************************)
(* C4 as stated: with autocommit on, a live connection and a callback that *)
(* returns normally, commit is called exactly once and rollback never.     *)
(***************************************************************************)
C4_CommitOnceNoRollback ==
  (Done /\ cfg.autocommit /\ HandlerReturned /\ LiveConnection) =>
    Count("commit") = 1 /\ Count("rollback") = 0

(***************************************************************************)
(* C4 amended: with autocommit on, a live connection and a callback that   *)
(* returns normally, commit is called exactly once; rollback is called at  *)
(* most once, and only after that commit call itself raised.               *)
(***************************************************************************)
C4_CommitOnceRollbackOnlyAfterFailedCommit ==
  (Done /\ cfg.autocommit /\ HandlerReturned /\ LiveConnection) =>
    /\ Count("commit") = 1
    /\ Count("rollback") <= 1
    /\ Called("rollback") => exc.by = "commit"
    /\ exc.by # "commit" => result = Return(rv)

C4_Witness ==
  /\ Done
  /\ cfg.autocommit
  /\ HandlerReturned
  /\ LiveConnection
  /\ Count("commit") = 1
  /\ Count("rollback") = 0
  /\ result = Return(rv)

(***************************************************************************)
(* C5: with autocommit off, commit is never called when the callback       *)
(* returns normally.                                                       *)
(***************************************************************************)
C5_NoCommitWithoutAutocommit ==
  (~cfg.autocommit /\ HandlerReturned) => ~Called("commit")

C5_Witness ==
  /\ Done
  /\ ~cfg.autocommit
  /\ HandlerReturned
  /\ alive
  /\ result = Return(rv)
  /\ ~Called("commit")
(***************************************************************************)
(* C6: when the callback raises a mysql IntegrityError on a live           *)
(* connection, rollback is called exactly once, commit never, and the      *)
(* outcome is an HTTP 500 response classified "Database Integrity Error"   *)
(* and carrying the cause text.                                            *)
(***************************************************************************)
C6_IntegrityErrorRolledBackAndClassified ==
  (Done /\ HandlerRaised("IntegrityError") /\ LiveConnection) =>
    /\ Count("rollback") = 1
    /\ ~Called("commit")
    /\ Classified(result, <<"Database", "Integrity", "Error:">>, exc)
    /\ \E i \in DOMAIN result.exc.msg : result.exc.msg[i] = "Integrity"

(***************************************************************************)
(* C7: when the callback raises a mysql error that is no IntegrityError on *)
(* a live connection, rollback is called, commit never, and the outcome is *)
(* an HTTP 500 response classified "Database Error" with the cause text.   *)
(***************************************************************************)
C7_BackendErrorRolledBackAndClassified ==
  (Done /\ HandlerRaised("Error") /\ LiveConnection) =>
    /\ Called("rollback")
    /\ ~Called("commit")
    /\ Classified(result, <<"Database", "Error:">>, exc)

(***************************************************************************)
(* C8: when the callback raises a bottle.HTTPError on a live connection,   *)
(* under any configuration, rollback is called, commit is not, and the     *)
(* same response object is re-raised with its status unchanged.            *)
(***************************************************************************)
C8_HTTPErrorRolledBackAndReraised ==
  (Done /\ HandlerRaised("HTTPError") /\ LiveConnection) =>
    /\ Called("rollback")
    /\ ~Called("commit")
    /\ result = Raise(exc)

(***************************************************************************)
(* C9: when the callback raises a bottle.HTTPResponse that is no           *)
(* HTTPError and the alive check answers, commit is called exactly when    *)
(* autocommit is on and the connection is alive, rollback is never called, *)
(* and the same response object is re-raised unchanged.                    *)
(***************************************************************************)
C9_HTTPResponseCommittedAndReraised ==
  (Done /\ HandlerRaised("HTTPResponse") /\ ~CheckRaised) =>
    /\ Called("commit") <=> (cfg.autocommit /\ LiveConnection)
    /\ Count("commit") <= 1
    /\ ~Called("rollback")
    /\ result = Raise(exc)

(***************************************************************************)
(* C10: when the callback raises any other exception on a live connection, *)
(* rollback is called exactly once whatever autocommit says, commit never, *)
(* and the original exception object is re-raised, not wrapped.            *)
(***************************************************************************)
C10_OtherExceptionRolledBackAndReraised ==
  (Done /\ HandlerRaised("Exception") /\ LiveConnection) =>
    /\ Count("rollback") = 1
    /\ ~Called("commit")
    /\ result = Raise(exc)
(***************************************************************************)
(* C11: the commit and rollback calls made for a response raised by the    *)
(* callback are a function of its class, of autocommit and of the state of *)
(* the connection, and never of its status code: an HTTPError of any       *)
(* status is rolled back and never committed, an HTTPResponse of any       *)
(* status is committed and never rolled back, each exactly when autocommit *)
(* is on and the connection is alive.                                      *)
(***************************************************************************)
C11_DecisionByKindNotStatus ==
  /\ (Done /\ HandlerRaised("HTTPError")) =>
       /\ Count("rollback") = (IF cfg.autocommit /\ LiveConnection THEN 1 ELSE 0)
       /\ Count("commit") = 0
  /\ (Done /\ HandlerRaised("HTTPResponse")) =>
       /\ Count("commit") = (IF cfg.autocommit /\ LiveConnection THEN 1 ELSE 0)
       /\ Count("rollback") = 0

C11_Witness ==
  /\ Done
  /\ HandlerRaised("HTTPError")
  /\ exc.status = 200
  /\ cfg.autocommit
  /\ LiveConnection
  /\ Count("rollback") = 1
  /\ Count("commit") = 0

\* a close call of the finally block raised
CloseRaised(op) == \E i \in DOMAIN log : log[i].op = op /\ log[i].arg = <<"raise">>

InFinally == pc \in {"finally_cursor", "finally_cnx"}

(***************************************************************************)
(* C12: in the finally block a cursor.close that raises does not prevent   *)
(* connection.close from being called, and no step of the finally block    *)
(* changes the outcome of the invocation, whether its close raises or not. *)
(***************************************************************************)
C12_CleanupNeverMasksOutcome ==
  /\ [](Done /\ CloseRaised("cursor.close") => Called("cnx.close"))
  /\ [][InFinally => result' = result]_vars

C12_Witness ==
  /\ Done
  /\ HandlerReturned
  /\ CloseRaised("cursor.close")
  /\ CloseRaised("cnx.close")
  /\ result = Return(rv)

(***************************************************************************)
(* C13: whenever the driver raises a mysql error at some step of the       *)
(* invocation (from connect, cursor creation, the time-zone statement, the *)
(* callback, the alive check, commit, rollback or the close after a failed *)
(* acquisition), the outcome is an HTTP 500 response built by the wrapper: *)
(* no mysql exception leaves the wrapper.                                  *)
(***************************************************************************)
C13_NoRawBackendError ==
  Done =>
    /\ ~(result.kind = "raise" /\ IsInstance(result.exc, "Error"))
    /\ IsInstance(exc, "Error") =>
         /\ result.kind = "raise"
         /\ result.exc.cls = "HTTPError"
         /\ result.exc.by = "wrapper"
         /\ result.exc.status = 500
(***************************************************************************)
(* Vocabulary of the properties about apply()                              *)
(***************************************************************************)
\* a request is being served or has been served
Serving == pc \notin {"apply", "idle"}

\* the callback of route i declares the merged keyword
DeclaresKeyword(i) == callbacks[i].cfg.keyword \in routes[i].params

\* the overlay a route configuration holds, in either form
OverlayOf(config) ==
  CHOOSE ov \in Overlays : config = Nested(ov) \/ config = Flat(ov)

\* the value field k is to have: the overlay's when it has the field
Overlaid(ov, k) == IF k \in DOMAIN ov THEN ov[k] ELSE plugin[k]

(***************************************************************************)
(* C14: for a callback that does not declare the merged keyword, apply     *)
(* returns the callback itself: a request to it calls neither connect nor  *)
(* cursor and its return value is the outcome; over the requests of an     *)
(* application with both kinds of routes, the connect calls are as many as *)
(* the requests to callbacks that declare the keyword.                     *)
(***************************************************************************)
C14_UndeclaredPassesThrough ==
  /\ \A i \in DOMAIN callbacks : ~DeclaresKeyword(i) => ~callbacks[i].wrapped
  /\ (Serving /\ ~DeclaresKeyword(current)) =>
       /\ ~Called("connect")
       /\ ~Called("cursor")
       /\ (Done /\ rv # None) => result = Return(rv)
  /\ connects + Count("connect") <= declaring
  /\ pc \in {"idle", "done"} => connects + Count("connect") = declaring

C14_Witness ==
  /\ Done
  /\ ~DeclaresKeyword(current)
  /\ rv # None
  /\ result = Return(rv)
  /\ ~Called("connect")
  /\ declaring = 1
  /\ connects = 1

(***************************************************************************)
(* C18: the configuration apply() gives the wrapper is, field by field,    *)
(* the overlay's value where the overlay has the field and the plugin's    *)
(* value elsewhere, and connect is called with exactly these values (a     *)
(* field whose value is None is left out of the call).                     *)
(***************************************************************************)
C18_OverlayWinsFieldByField ==
  \A i \in DOMAIN callbacks :
    LET ov == OverlayOf(routes[i].config) IN
    /\ \A k \in Fields : callbacks[i].cfg[k] = Overlaid(ov, k)
    /\ (Serving /\ i = current) =>
         \A j \in DOMAIN log :
           log[j].op = "connect" =>
             \A k \in ConnectFields :
               IF IsNone(k, Overlaid(ov, k))
               THEN k \notin DOMAIN log[j].arg
               ELSE k \in DOMAIN log[j].arg /\ log[j].arg[k] = Overlaid(ov, k)

C18_Witness ==
  /\ Called("connect")
  /\ plugin.database = "default_db"
  /\ routes[1].config = Nested([database |-> "override_db"])
  /\ log[1].arg.database = "override_db"
  /\ log[1].arg.user = "user"
  /\ log[1].arg.autocommit = TRUE

(***************************************************************************)
(* C19: an overlay given under the key "mysql" and the same overlay given  *)
(* as keys "mysql.<field>" give the same merged configuration: what        *)
(* apply() computed for the route is the merge of either form.             *)
(***************************************************************************)
C19_NestedAndFlatAgree ==
  \A i \in DOMAIN callbacks :
    LET ov == OverlayOf(routes[i].config) IN
    /\ callbacks[i].cfg = Merged(plugin, Nested(ov))
    /\ callbacks[i].cfg = Merged(plugin, Flat(ov))

C19_Witness ==
  /\ Len(callbacks) = 1
  /\ routes[1].config = Flat(Override)
  /\ callbacks[1].cfg = Merged(plugin, Nested(Override))
  /\ callbacks[1].cfg.database = "override_db"
  /\ callbacks[1].cfg.keyword = "conn"

(***************************************************************************)
(* Several invocations at once                                             *)
(***************************************************************************)
\* the locals of the running invocation
Locals ==
  [cfg |-> cfg, pc |-> pc, cnx |-> cnx, cursor |-> cursor, alive |-> alive,
   exc |-> exc, rv |-> rv, result |-> result, log |-> log]

\* a name that all invocations share: whoever assigned it last
ResumeShared(own, shared) == shared

\* cnx and cursor are locals of wrapper(): a resumed invocation finds the
\* values it assigned itself, not those of the invocation that ran meanwhile
Resume(own, shared) == own

\* the thread of the running invocation is suspended and that of invocation
\* j, not yet finished, goes on
Switch ==
  \E j \in DOMAIN frames :
    /\ frames[j].pc # "done"
    /\ frames' = [k \in (DOMAIN frames \ {j}) \cup {inv} |->
                    IF k = inv THEN Locals ELSE frames[k]]
    /\ inv' = j
    /\ cfg' = frames[j].cfg
    /\ pc' = frames[j].pc
    /\ cnx' = Resume(frames[j].cnx, cnx)
    /\ cursor' = Resume(frames[j].cursor, cursor)
    /\ alive' = frames[j].alive
    /\ exc' = frames[j].exc
    /\ rv' = frames[j].rv
    /\ result' = frames[j].result
    /\ log' = frames[j].log
    /\ UNCHANGED <<reg, objects, plugin, routes, callbacks, current, budget,
                   connects, declaring>>

\* invocations of one wrapper that run at once
MaxThreads == 2

\* the driver of this specification raises mysql.connector.Error("lost")
\* or nothing, and the callback returns "rv1" or raises HTTPError(404);
\* connections stay alive and is_connected answers
Mild(e) ==
  \/ e = NoExc
  \/ e.by = "wrapper"
  \/ e.cls = "Error" /\ e.by # "callback" /\ e.msg = <<"lost">>
  \/ e.cls = "HTTPError" /\ e.status = 404

Calm ==
  /\ Mild(exc)
  /\ Mild(result.exc)
  /\ rv \in {None, "rv1"}
  /\ cnx # None => alive
  /\ \A n \in DOMAIN log : log[n].op = "is_connected" => log[n].arg # <<"raise">>

\* a plugin with autocommit and a time zone, its route adapted, and
\* MaxThreads invocations of the wrapper entered, the first one running
InitThreads ==
  /\ plugin = [Defaults EXCEPT !.time_zone = "+00:00"]
  /\ OnlyPlugin(plugin)
  /\ routes = << [config |-> <<>>, params |-> {plugin.keyword}] >>
  /\ callbacks = << [wrapped |-> TRUE, cfg |-> Merged(plugin, <<>>)] >>
  /\ current = 1
  /\ budget = 0
  /\ connects = 0
  /\ declaring = MaxThreads
  /\ cfg = callbacks[1].cfg
  /\ pc = "connect"
  /\ Entered
  /\ inv = 1
  /\ frames = [j \in 2..MaxThreads |-> Locals]
  /\ objects = {}

NextThreads ==
  \/ Switch
  \/ Connect /\ Calm'
  \/ CreateCursor /\ Calm'
  \/ SetTimeZone /\ Calm'
  \/ AcquireExcept /\ Calm'
  \/ CallHandler /\ Calm'
  \/ CommitOnReturn /\ Calm'
  \/ HandleExcept /\ Calm'
  \/ FinallyCursor /\ Calm'
  \/ FinallyCnx /\ Calm'

SpecThreads == InitThreads /\ [][NextThreads]_vars

(***************************************************************************)
(* Claims about setup()                                                    *)
(***************************************************************************)
\* the positions of app.plugins held by plugins of this class
Registered == {k \in DOMAIN plugins : instances[plugins[k]].own}

\* setup() has been called
SetUp == last.id # 0

\* C15: setup() of a plugin fails exactly when a plugin of this class
\* already in app.plugins has its keyword, and what it then raises is a
\* PluginError; a step in which setup() failed leaves app.plugins and the
\* adapted route as they were, so the plugin never becomes active.
C15_DuplicateKeywordRejectedAtSetup ==
  /\ [](SetUp => /\ last.raised <=> last.sameKeyword
                 /\ last.raised => last.error = "PluginError")
  /\ [][last' # last /\ last'.raised => plugins' = plugins /\ chain' = chain]_vars

\* C16: on the adapted route no two installed plugins that wrap the callback
\* inject under the same parameter name, whatever the overlay of the route.
C16_NoTwoInjectionsUnderOneName ==
  \A k, l \in DOMAIN chain :
    k # l /\ chain[k].wrapped /\ chain[l].wrapped => chain[k].keyword # chain[l].keyword

\* C17: a plugin set up while a registered plugin of this class has its name
\* and none has its keyword is accepted, and its name becomes the name it had
\* followed by "_" and its keyword; the registered plugins of this class
\* have pairwise distinct names and pairwise distinct keywords.
C17_SameNameSuffixedAndRegisteredDistinct ==
  /\ SetUp /\ last.sameName /\ ~last.sameKeyword =>
       /\ ~last.raised
       /\ instances[last.id].name = last.before \o "_" \o instances[last.id].keyword
  /\ \A k, l \in Registered :
       k # l => /\ instances[plugins[k]].name # instances[plugins[l]].name
                /\ instances[plugins[k]].keyword # instances[plugins[l]].keyword

C17_Witness ==
  /\ SetUp
  /\ last.installing
  /\ last.sameName
  /\ ~last.raised
  /\ instances[last.id].name = "mysql_db2"
  /\ Len(plugins) = 3
  /\ Registered = DOMAIN plugins

(***************************************************************************)
(* Claims about concurrent invocations                                     *)
(***************************************************************************)
\* the invocations there are
Invocations == DOMAIN frames \cup {inv}

\* the locals of invocation j
FrameOf(j) == IF j = inv THEN Locals ELSE frames[j]

\* the driver created object id for invocation j
Created(j, id) == [id |-> id, by |-> j] \in objects

\* C20: the connection and the cursor an invocation holds were created for
\* it, every call it made on a connection or cursor (cursor, execute,
\* is_connected, commit, rollback, close) was on one created for it, the
\* cursor its callback received was created for it, and no object was
\* created twice.
C20_InvocationsShareNothing ==
  /\ \A j \in Invocations :
       LET f == FrameOf(j) IN
       /\ f.cnx # None => Created(j, f.cnx)
       /\ f.cursor # None => Created(j, f.cursor)
       /\ \A n \in DOMAIN f.log :
            /\ f.log[n].on # None => Created(j, f.log[n].on)
            /\ f.log[n].op = "callback" => Created(j, f.log[n].arg[1])
  /\ \A o1, o2 \in objects : o1.id = o2.id => o1 = o2

C20_Witness ==
  \E j, k \in Invocations :
    /\ j # k
    /\ FrameOf(j).pc = "finally_cnx"
    /\ \E n \in DOMAIN FrameOf(j).log : FrameOf(j).log[n].op = "commit"
    /\ \E n \in DOMAIN FrameOf(j).log : FrameOf(j).log[n].op = "cursor.close"
    /\ FrameOf(k).pc = "finally_cursor"
    /\ \E n \in DOMAIN FrameOf(k).log : FrameOf(k).log[n].op = "rollback"
    /\ FrameOf(k).cursor # None

(***************************************************************************)
(* Claims about the value returned and the statements before the callback  *)
(***************************************************************************)
\* the is_connected or the commit after the callback's return raised
RaisedAfterReturn == exc # NoExc /\ exc.by \in {"is_connected", "commit"}

\* C21 as stated: whenever the callback returned a value, the invocation
\* ends in a return of that value.
C21_ReturnValueUnchanged ==
  Done /\ HandlerReturned => result.kind = "return" /\ result.value = rv

\* C21: when the callback returned a value, the invocation ends in a return
\* of exactly that value unless the is_connected or the commit after the
\* return raised; then, and only then, it ends in an exception.
C21_ReturnValueUnchangedUnlessCommitRaises ==
  Done /\ HandlerReturned =>
    IF RaisedAfterReturn
    THEN result.kind = "raise"
    ELSE exc = NoExc /\ result.kind = "return" /\ result.value = rv

C21_Witness ==
  /\ Done
  /\ HandlerReturned
  /\ Called("commit")
  /\ CloseRaised("cnx.close")
  /\ result.kind = "return"
  /\ result.value = "rv2"

\* a time zone is configured: set, and not to the empty string
TimeZoneConfigured == cfg.time_zone # None /\ cfg.time_zone # ""

\* the positions of the log where op was called
At(op) == {i \in DOMAIN log : log[i].op = op}

\* the acquisition is through: cursor created and the `if time_zone:` passed
PastTimeZone == cursor # None /\ pc \notin {"cursor", "time_zone"}

\* C22: once the cursor exists and the time-zone step is passed, execute was
\* called exactly once if a time zone is configured and never otherwise;
\* every execute is "SET time_zone = %s" with the configured value, on the
\* invocation's cursor, after the cursor call and before the callback; and
\* the callback is never called after an execute that raised.
C22_TimeZoneSetOnceBeforeHandler ==
  /\ PastTimeZone => Count("execute") = (IF TimeZoneConfigured THEN 1 ELSE 0)
  /\ Count("execute") <= 1
  /\ \A i \in At("execute") :
       /\ TimeZoneConfigured
       /\ log[i].arg = <<"SET time_zone = %s", cfg.time_zone>>
       /\ log[i].on # None
       /\ log[i].on = cursor
       /\ \E c \in At("cursor") : c < i
       /\ \A h \in At("callback") : i < h
  /\ Called("callback") /\ TimeZoneConfigured => Called("execute")
  /\ exc.by = "execute" => ~Called("callback")

C22_Witness ==
  /\ Done
  /\ TimeZoneConfigured
  /\ Count("execute") = 1
  /\ Called("callback")
  /\ rv # None

\* the options a cursor call was given
Options(i) == {log[i].arg[n] : n \in DOMAIN log[i].arg}

\* C23: every cnx.cursor() call is given dictionary=True exactly when the
\* configuration's dictionary flag is set and buffered=True exactly when its
\* buffered flag is set, each at most once, and no other option.
C23_CursorOptionsFollowFlags ==
  \A i \in At("cursor") :
    /\ "dictionary" \in Options(i) <=> cfg.dictionary
    /\ "buffered" \in Options(i) <=> cfg.buffered
    /\ Options(i) \subseteq {"dictionary", "buffered"}
    /\ Len(log[i].arg) = Cardinality(Options(i))

C23_Witness ==
  /\ cursor # None
  /\ ~cfg.dictionary
  /\ cfg.buffered
  /\ \E i \in At("cursor") : log[i].arg = <<"buffered">>

\* C26: after a setup() that failed on a duplicate keyword, the name of the
\* plugin it was called on is the name it had before the call.
C26_FailedSetupLeavesPluginUnchanged ==
  SetUp /\ last.raised => instances[last.id].name = last.before

(***************************************************************************)
(* Claims about cancellation and the order of the calls                    *)
(***************************************************************************)
\* the invocation was interrupted by an exception that is no Exception,
\* raised by cursor creation, the time-zone statement or the callback
Cancelled ==
  /\ exc.cls = "BaseException"
  /\ exc.by \in {"cursor", "execute", "callback"}

\* C24: when the invocation was cancelled after its connection was opened,
\* by the time it ends close has been called on the connection, and on the
\* cursor if one was created.
C24_CancellationStillCleansUp ==
  Done /\ Cancelled =>
    /\ cnx # None => Called("cnx.close")
    /\ cursor # None => Called("cursor.close")

\* C25: every commit and every rollback comes directly after an
\* is_connected call on the same connection that answered True, and before
\* every cursor.close and cnx.close; after cnx.close there is no commit,
\* rollback, cursor creation, execute or callback.
C25_TransactionCallsOnLiveConnectionBeforeClose ==
  \A i \in DOMAIN log :
    /\ log[i].op \in {"commit", "rollback"} =>
         /\ i > 1
         /\ log[i - 1].op = "is_connected"
         /\ log[i - 1].arg = <<"True">>
         /\ log[i - 1].on = log[i].on
         /\ \A j \in At("cursor.close") \cup At("cnx.close") : i < j
    /\ log[i].op = "cnx.close" =>
         \A j \in DOMAIN log :
           j > i => log[j].op \notin {"commit", "rollback", "cursor", "execute", "callback"}

C25_Witness ==
  /\ Done
  /\ \E i \in At("commit"), j \in At("rollback"), k \in At("cursor.close"),
        l \in At("cnx.close") : i < j /\ j < k /\ k < l

====
